---- MODULE Spec2Model ----
(***************************************************************************)
(* A model of the request-dispatch core of go-rest: pipeline composition   *)
(* (Pipeline.Add over Go slices), pipeline dispatch (Pipeline.Next and the *)
(* handlers' continuations), route-level dispatch (Context.handle), the    *)
(* service entry (Service.ServeHTTP) and the response mapping and encoding *)
(* (sendResponse, sendSuccess, sendError, sendEntity, DefaultEntityHandler)*)
(***************************************************************************)
EXTENDS Integers, Sequences, FiniteSets, TLC

VARIABLES
  heap,      \* Go heap of backing arrays: array id -> sequence of handler values
  refs,      \* the pipeline values (slice headers) obtained so far
  snap,      \* ghost: the contents each pipeline value had when it was obtained
  want,      \* ghost: the flat handler list each pipeline value is specified to hold
  from,      \* ghost: the receiver (index in refs) each value was derived from, 0 if none
  nadd,      \* number of Add calls made
  cfg,       \* the service as configured and the inbound HTTP request
  reqs,      \* the Request wrappers created for the inbound request
  stack,     \* call stack of the dispatch: Pipeline.Next and ServeRequest frames
  ret,       \* the (result, error) pair the last completed call returned
  invoked,   \* ghost: the user handlers invoked so far, in order
  sink,      \* calls received by the http.ResponseWriter of the inbound request
  recorder,  \* calls received by the httptest recorder of the trace output
  ents,      \* the Entity objects (readers) alive in the request
  sent,      \* ghost: the arguments of every sendEntity call
  alog,      \* lines handed to the alert/log sink
  pc,        \* where the processing of the inbound request stands
  amaps,     \* Go heap of Attrs maps: map id -> the map's contents
  attr,      \* the Attrs map a route closure holds (0 = nil)
  hist,      \* ghost: per Request, the bag its creation and its own calls give
  tracers,   \* the tracer sinks (xtrace.Trace) alive: their lines, their error mark
  now        \* the clock time.Now() reads

addVars == <<heap, refs, snap, want, from, nadd>>

runVars == <<cfg, reqs, stack, ret, invoked, sink, recorder, ents, sent, alog, pc>>

reqVars == <<amaps, attr, hist, tracers, now>>

vars == <<addVars, runVars, reqVars>>

----------------------------------------------------------------------------
(* Bounds *)

\* Add calls explored after the initial pipelines are built
MaxAdds == 2

----------------------------------------------------------------------------
(* Go slices: type Pipeline []Handler *)

\* A slice header: backing array (0 = nil slice), offset into it, length, capacity
NilSlice == [arr |-> 0, off |-> 0, len |-> 0, cap |-> 0]

\* The zero value of an array slot
ZeroHandler == [kind |-> "zero", id |-> 0, hdr |-> NilSlice]

\* HandlerFunc(f): a plain handler, identified by id
FuncHandler(i) == [kind |-> "func", id |-> i, hdr |-> NilSlice]

\* A Pipeline stored in a Handler interface value: it keeps the slice header
PipeHandler(s) == [kind |-> "pipe", id |-> 0, hdr |-> s]

Zeros(n) == [i \in 1..n |-> ZeroHandler]

\* p[i] for i in 0..len(p)-1, read through the heap
SliceElems(hp, s) == [i \in 1..s.len |-> hp[s.arr][s.off + i]]

\* make(Pipeline, n): a fresh array of n zero slots, cap == len == n
Make(hp, n) ==
  [heap |-> Append(hp, Zeros(n)),
   val  |-> [arr |-> Len(hp) + 1, off |-> 0, len |-> n, cap |-> n]]

\* copy(dst, src): min(len(dst), len(src)) elements written into dst's array
Copy(hp, dst, src) ==
  LET n == IF dst.len < src.len THEN dst.len ELSE src.len
      e == SliceElems(hp, src)
  IN IF n = 0 THEN hp
     ELSE [hp EXCEPT ![dst.arr] =
             [j \in 1..Len(@) |->
                IF j > dst.off /\ j <= dst.off + n THEN e[j - dst.off] ELSE @[j]]]

\* The capacity append grows to (runtime growslice, small slices: double, or
\* the needed length when that is larger)
GrowCap(old, need) == IF need > 2 * old THEN need ELSE 2 * old

\* append(s, xs...): in place when the capacity allows, else into a new array
GoAppend(hp, s, xs) ==
  LET n == Len(xs) IN
  IF n = 0 THEN [heap |-> hp, val |-> s]
  ELSE IF s.arr # 0 /\ s.len + n <= s.cap
  THEN [heap |-> [hp EXCEPT ![s.arr] =
                    [j \in 1..Len(@) |->
                       IF j > s.off + s.len /\ j <= s.off + s.len + n
                       THEN xs[j - s.off - s.len] ELSE @[j]]],
        val  |-> [s EXCEPT !.len = s.len + n]]
  ELSE LET c == GrowCap(s.cap, s.len + n)
           old == IF s.arr = 0 THEN <<>> ELSE SliceElems(hp, s)
       IN [heap |-> Append(hp, old \o xs \o Zeros(c - s.len - n)),
           val  |-> [arr |-> Len(hp) + 1, off |-> 0, len |-> s.len + n, cap |-> c]]

\* A bug Add could have: appending to the receiver without copying it first
AddNoCopy(hp, p, h) ==
  IF h.kind = "pipe" THEN GoAppend(hp, p, SliceElems(hp, h.hdr))
  ELSE GoAppend(hp, p, <<h>>)

\* Pipeline.Add: the new heap and the returned pipeline
Add(hp, p, h) ==
  IF p.arr = 0
  THEN \* p == nil: return Pipeline{h}, whatever h is
       [heap |-> Append(hp, <<h>>),
        val  |-> [arr |-> Len(hp) + 1, off |-> 0, len |-> 1, cap |-> 1]]
  ELSE LET c  == Make(hp, p.len)
           h1 == Copy(c.heap, c.val, p)
       IN IF h.kind = "pipe"
          THEN GoAppend(h1, c.val, SliceElems(h1, h.hdr))  \* flatten and append
          ELSE GoAppend(h1, c.val, <<h>>)

\* The elements of a pipeline value, nested pipelines expanded to their own elements
RECURSIVE Deep(_, _)
Deep(hp, s) ==
  [i \in 1..s.len |->
     LET e == hp[s.arr][s.off + i] IN
     IF e.kind = "pipe"
     THEN [kind |-> "pipe", id |-> 0, elems |-> Deep(hp, e.hdr)]
     ELSE [kind |-> e.kind, id |-> e.id, elems |-> <<>>]]

\* A flat list of plain handlers, in the shape Deep gives
Flat(ids) == [i \in 1..Len(ids) |-> [kind |-> "func", id |-> ids[i], elems |-> <<>>]]

----------------------------------------------------------------------------
(* Values handlers return and the dispatcher sends *)

\* net/http status codes named in the source
StatusOK == 200
StatusInternalServerError == 500

\* requestFlags
reqFlagNone == 0
reqFlagFinalized == 1

\* html.EscapeString
EscapeString(m) == IF m = "a<b" THEN "a&lt;b" ELSE m

\* Structured detail (interface{}): nil, a map or a slice.  An item is a map
\* entry (key a, value b), a FieldError (field a, message b) or any other value a
NoDetail == [kind |-> "nil", items |-> <<>>]
MapDetail(items) == [kind |-> "map", items |-> items]
SliceDetail(items) == [kind |-> "slice", items |-> items]
Entry(k, v) == [fe |-> FALSE, a |-> k, b |-> v]
FieldError(f, m) == [fe |-> TRUE, a |-> f, b |-> m]
RawValue(v) == [fe |-> FALSE, a |-> v, b |-> ""]
Details ==
  {NoDetail, MapDetail(<<Entry("name", "a<b")>>),
   SliceDetail(<<FieldError("name", "required"), RawValue("7")>>)}

\* The <table> of an HTML error document: none, or its rows, each the cells of
\* one <tr>
NoTable == [present |-> FALSE, rows |-> <<>>]
Table(rows) == [present |-> TRUE, rows |-> rows]

\* Byte strings written to a response: a tag for the encoding, the text, and for
\* an error document the status, the message and the table it carries
NoBytes == [fmt |-> "none", text |-> "", status |-> 0, msg |-> "", table |-> NoTable]
RawBytes(t) == [fmt |-> "raw", text |-> t, status |-> 0, msg |-> "", table |-> NoTable]

\* map[string]string header maps (nil and empty behave alike: both range over nothing)
NoHeaders == [k \in {} |-> ""]
HeaderMaps ==
  {NoHeaders, [k \in {"Location"} |-> "/x"], [k \in {"X-Request-Id"} |-> "forged"]}

\* Go error values other than *Error: nil, a basicError, a foreign error
\* (errors.New, fmt.Errorf) that has no exported fields, or a foreign error that
\* is an ErrorDetail too (detail: what its ErrorDetail() returns)
NilErr == [kind |-> "nil", status |-> 0, msg |-> "", detail |-> NoDetail]
BasicError(s, m) == [kind |-> "basic", status |-> s, msg |-> m, detail |-> NoDetail]
ForeignError(m) == [kind |-> "foreign", status |-> 0, msg |-> m, detail |-> NoDetail]
DetailedError(m, d) == [kind |-> "detailed", status |-> 0, msg |-> m, detail |-> d]

Messages == {"not found", "a<b"}

\* The content handed to the entity handler (interface{}): nil, the no-op marker,
\* an Entity (an object in ents), a json.RawMessage, a value json.Marshal can
\* encode, a value it cannot (a channel, a func), or an error value
Content(k, e, t, c) == [kind |-> k, ent |-> e, text |-> t, cause |-> c]
NilContent == Content("nil", 0, "", NilErr)
NoopContent == Content("Noop", 0, "", NilErr)
EntityContent(e) == Content("Entity", e, "", NilErr)
RawContent(t) == Content("Raw", 0, t, NilErr)
ValueContent(t) == Content("Value", 0, t, NilErr)
BadContent == Content("Bad", 0, "chan", NilErr)
\* an error value held in an interface{}: a nil error is a nil interface{}
ErrorContent(c) == IF c.kind = "nil" THEN NilContent ELSE Content("Error", 0, "", c)

\* A handler's result (interface{}): a *Response envelope or any other content
Result(r, s, h, c) == [isResp |-> r, StatusCode |-> s, Headers |-> h, Entity |-> c]
Plain(c) == Result(FALSE, 0, NoHeaders, c)
\* NewResponse
NewResponse(s, h, c) == Result(TRUE, s, h, c)
NilResult == Plain(NilContent)
IsNilResult(r) == ~r.isResp /\ r.Entity.kind = "nil"

\* A handler's error: nil, a *Error, or any other error value (kept in Cause)
Err(k, s, h, c) ==
  [kind |-> k, Status |-> s, Headers |-> h, Cause |-> c, Detail |-> NoDetail]
NoError == Err("nil", 0, NoHeaders, NilErr)
\* NewError
NewError(s, e) == Err("Error", s, NoHeaders, e)
\* NewErrorf
NewErrorf(s, m) == Err("Error", s, NoHeaders, BasicError(s, m))
\* Error.SetHeaders
SetHeaders(e, h) == [e EXCEPT !.Headers = h]
\* Error.SetDetail
SetDetail(e, d) == [e EXCEPT !.Detail = d]
OtherError(c) == Err("other", 0, NoHeaders, c)

Outcome(r, e) == [set |-> TRUE, res |-> r, err |-> e]
NoReturn == [set |-> FALSE, res |-> NilResult, err |-> NoError]
NilOutcome == Outcome(NilResult, NoError)

\* http.StatusText
StatusText(s) ==
  CASE s = 200 -> "OK"
    [] s = 201 -> "Created"
    [] s = 404 -> "Not Found"
    [] s = 500 -> "Internal Server Error"
    [] OTHER -> ""

\* strings.TrimSpace and strings.EqualFold on the parts of an Accept header
TrimSpace(p) == IF p = " TEXT/HTML " THEN "TEXT/HTML" ELSE p
EqualFold(a, b) == a = b \/ (a = "TEXT/HTML" /\ b = "text/html")

\* Request.Accepts: the header, split at commas, holds ctype
Accepts(accept, ctype) ==
  \E i \in 1..Len(accept) : EqualFold(TrimSpace(accept[i]), ctype)

\* Accept headers, as their comma-separated parts (none: the header is absent)
AcceptHeaders ==
  {<<>>, <<"application/json">>, <<"text/html">>,
   <<"application/json", " TEXT/HTML ">>, <<"text/html;q=0.9">>}

----------------------------------------------------------------------------
(* The response sink: the calls an http.ResponseWriter receives *)

Event(e, k, v, c, b) ==
  [ev |-> e, key |-> k, val |-> v, code |-> c, body |-> b, by |-> "dispatcher"]
\* the same call made by a user handler, not by the dispatcher
ByHandler(e) == [e EXCEPT !.by = "handler"]
\* w.Header().Set(k, v)
HeaderSet(k, v) == Event("set", k, v, 0, NoBytes)
\* w.Header().Add(k, v)
HeaderAdd(k, v) == Event("add", k, v, 0, NoBytes)
\* w.WriteHeader(code)
WriteHeader(c) == Event("status", "", "", c, NoBytes)
\* w.Write(data)
Write(b) == Event("write", "", "", 0, b)

StatusWrites(w) == {i \in 1..Len(w) : w[i].ev = "status"}
BodyWrites(w) == {i \in 1..Len(w) : w[i].ev = "write"}

\* The values of header k after the calls w
RECURSIVE HeaderValues(_, _)
HeaderValues(w, k) ==
  IF w = <<>> THEN <<>>
  ELSE LET e == w[Len(w)]
           before == HeaderValues(SubSeq(w, 1, Len(w) - 1), k)
       IN CASE e.ev = "set" /\ e.key = k -> <<e.val>>
            [] e.ev = "add" /\ e.key = k -> Append(before, e.val)
            [] OTHER -> before

----------------------------------------------------------------------------
(* Response mapping and encoding.  The operators thread a record st:       *)
(*   w      the calls the writer in use has received                       *)
(*   to     which writer that is ("sink" or "recorder")                    *)
(*   ents   the Entity objects                                             *)
(*   sent   the sendEntity calls made                                      *)
(*   alog   the lines logged                                               *)
(*   err    whether the entity handler returned an error                   *)
(*   panic  whether the goroutine panicked                                 *)

\* BytesEntity / readerEntity: a content type and the bytes not yet read
NewBytesEntity(t, b) == [ctype |-> t, data |-> b, reads |-> 0]

\* json.Marshal of the content of the default branch
Marshal(content) ==
  CASE content.kind = "Value" ->
         [ok |-> TRUE, data |-> [fmt |-> "json", text |-> content.text, status |-> 0, msg |-> "",
                                 table |-> NoTable]]
    [] content.kind = "Error" /\ content.cause.kind = "basic" ->
         \* struct basicError: {"status":S,"message":M}
         [ok |-> TRUE, data |-> [fmt |-> "json", text |-> "basicError",
                                 status |-> content.cause.status, msg |-> content.cause.msg,
                                 table |-> NoTable]]
    [] content.kind = "Error" /\ content.cause.kind \in {"foreign", "detailed"} ->
         \* no exported field: {}
         [ok |-> TRUE, data |-> [fmt |-> "json", text |-> "{}", status |-> 0, msg |-> "",
                                 table |-> NoTable]]
    [] OTHER -> [ok |-> FALSE, data |-> NoBytes]

\* io.Copy(rsp, e): reads the entity to its end, writing what it read
CopyEntity(st, e) ==
  LET o == st.ents[e] IN
  [st EXCEPT !.w = IF o.data.fmt = "none" THEN @ ELSE Append(@, Write(o.data)),
             !.ents[e] = [o EXCEPT !.data = NoBytes, !.reads = @ + 1]]

\* DefaultEntityHandler, default branch: header, status, then marshal and write
DefaultBranch(st, status, content) ==
  LET m  == Marshal(content)
      w1 == st.w \o <<HeaderAdd("Content-Type", "application/json"), WriteHeader(status)>>
  IN IF ~m.ok
     THEN [st EXCEPT !.w = w1, !.err = TRUE]
     ELSE [st EXCEPT !.w = Append(w1, Write(m.data)), !.err = FALSE]

\* A bug DefaultEntityHandler could have: on the Entity branch the status written
\* before the Content-Type header is added
DefaultEntityHandlerStatusFirst(st, status, content) ==
  CASE content.kind = "nil" ->
         [st EXCEPT !.w = Append(@, WriteHeader(status)), !.err = FALSE]
    [] content.kind = "Noop" ->
         [st EXCEPT !.err = FALSE]
    [] content.kind = "Entity" ->
         CopyEntity([st EXCEPT !.w = @ \o <<WriteHeader(status),
                                           HeaderAdd("Content-Type", st.ents[content.ent].ctype)>>,
                               !.err = FALSE], content.ent)
    [] content.kind = "Raw" ->
         [st EXCEPT !.w = @ \o <<HeaderAdd("Content-Type", "application/json"),
                                 WriteHeader(status), Write(RawBytes(content.text))>>,
                    !.err = FALSE]
    [] OTHER -> DefaultBranch(st, status, content)

\* A bug DefaultEntityHandler could have: the Entity case tried before the no-op
\* case, so that a NoopEntity (content type text/plain, no bytes) is sent
DefaultEntityHandlerEntityFirst(st, status, content) ==
  CASE content.kind = "nil" ->
         [st EXCEPT !.w = Append(@, WriteHeader(status)), !.err = FALSE]
    [] content.kind = "Noop" ->
         [st EXCEPT !.w = @ \o <<HeaderAdd("Content-Type", "text/plain"), WriteHeader(status)>>,
                    !.err = FALSE]
    [] content.kind = "Entity" ->
         CopyEntity([st EXCEPT !.w = @ \o <<HeaderAdd("Content-Type", st.ents[content.ent].ctype),
                                           WriteHeader(status)>>,
                               !.err = FALSE], content.ent)
    [] content.kind = "Raw" ->
         [st EXCEPT !.w = @ \o <<HeaderAdd("Content-Type", "application/json"),
                                 WriteHeader(status), Write(RawBytes(content.text))>>,
                    !.err = FALSE]
    [] OTHER -> DefaultBranch(st, status, content)

\* DefaultEntityHandler
DefaultEntityHandler(st, status, content) ==
  CASE content.kind = "nil" ->
         [st EXCEPT !.w = Append(@, WriteHeader(status)), !.err = FALSE]
    [] content.kind = "Noop" ->
         [st EXCEPT !.err = FALSE]
    [] content.kind = "Entity" ->
         CopyEntity([st EXCEPT !.w = @ \o <<HeaderAdd("Content-Type", st.ents[content.ent].ctype),
                                           WriteHeader(status)>>,
                               !.err = FALSE], content.ent)
    [] content.kind = "Raw" ->
         [st EXCEPT !.w = @ \o <<HeaderAdd("Content-Type", "application/json"),
                                 WriteHeader(status), Write(RawBytes(content.text))>>,
                    !.err = FALSE]
    [] OTHER -> DefaultBranch(st, status, content)

\* The header map as Add calls (maps here hold at most one key)
HeaderAdds(h) ==
  IF DOMAIN h = {} THEN <<>>
  ELSE LET k == CHOOSE x \in DOMAIN h : TRUE IN <<HeaderAdd(k, h[k])>>

\* Service.sendEntity
sendEntity(st, c, status, headers, content) ==
  LET w1 == st.w \o HeaderAdds(headers)
      w2 == IF c.userAgent # "" THEN Append(w1, HeaderAdd("User-Agent", c.userAgent)) ELSE w1
      s1 == [st EXCEPT !.w = w2,
                       !.sent = Append(@, [to |-> st.to, status |-> status,
                                           headers |-> headers, content |-> content])]
      s2 == DefaultEntityHandler(s1, status, content)
  IN IF s2.err THEN [s2 EXCEPT !.alog = Append(@, "encode")] ELSE s2

\* A bug sendSuccess could have: the envelope's status dropped for 200
sendSuccessAlwaysOK(st, c, res) ==
  sendEntity(st, c, StatusOK, res.Headers, res.Entity)

\* Service.sendSuccess
sendSuccess(st, c, res) ==
  IF res.isResp
  THEN sendEntity(st, c, res.StatusCode, res.Headers, res.Entity)
  ELSE sendEntity(st, c, StatusOK, NoHeaders, res.Entity)

\* The rows htmlError renders for a detail: map keys and values and the
\* fields and messages of field errors escaped, other slice elements as they are
DetailRows(d) ==
  [i \in 1..Len(d.items) |->
     LET x == d.items[i] IN
     IF d.kind = "map" \/ x.fe THEN <<EscapeString(x.a), EscapeString(x.b)>>
     ELSE <<x.a>>]

DetailTable(d) == IF d.kind = "nil" THEN NoTable ELSE Table(DetailRows(d))

\* htmlError: the HTML document of an error, as a fresh BytesEntity; the detail
\* rendered is the one the content yields as an ErrorDetail
htmlError(status, headers, cause) ==
  NewBytesEntity("text/html",
                 [fmt |-> "html", text |-> StatusText(status), status |-> status,
                  msg |-> EscapeString(cause.msg), table |-> DetailTable(cause.detail)])

\* A bug sendError could have: every error answered with status 500
sendErrorAlways500(st, c, err) ==
  LET cause == IF err.kind = "Error" THEN err.Cause
               ELSE BasicError(StatusInternalServerError, err.Cause.msg)
  IN sendEntity(st, c, StatusInternalServerError, err.Headers, ErrorContent(cause))

\* Service.sendError
sendError(st, c, err) ==
  LET r == IF err.kind = "Error" THEN err.Status ELSE StatusInternalServerError
      h == IF err.kind = "Error" THEN err.Headers ELSE NoHeaders
      cause == IF err.kind = "Error" THEN err.Cause
               ELSE BasicError(StatusInternalServerError, err.Cause.msg)
      s1 == [st EXCEPT !.alog = Append(@, IF r < 200 \/ r >= 500 THEN "error" ELSE "debug")]
  IN IF Accepts(c.accept, "text/html")
     THEN IF cause.kind = "nil"
          THEN \* htmlError calls content.Error() on a nil error
               [s1 EXCEPT !.panic = TRUE]
          ELSE sendEntity([s1 EXCEPT !.ents = Append(@, htmlError(r, h, cause))], c, r, h,
                          EntityContent(Len(s1.ents) + 1))
     ELSE sendEntity(s1, c, r, h, ErrorContent(cause))

\* Service.sendResponse
sendResponse(st, c, req, res, err) ==
  LET s1 == [st EXCEPT !.w = Append(@, HeaderSet("X-Request-Id", req.Id))]
  IN IF err.kind = "nil" THEN sendSuccess(s1, c, res) ELSE sendError(s1, c, err)

\* The record threaded through a send to writer `to`, whose calls so far are w
SendState(to, w) ==
  [w |-> w, to |-> to, ents |-> ents, sent |-> sent, alog |-> alog,
   err |-> FALSE, panic |-> FALSE]

----------------------------------------------------------------------------
(* Dispatch of one inbound request *)

\* Handlers attached to the service, and elements of a route pipeline
MaxSvc == 1
MaxRoute == 2

\* Handler values: a user HandlerFunc, a Pipeline used as a Handler, or the
\* service's routeRequest
UserHandler(i) == [kind |-> "func", id |-> i, elems |-> <<>>]
PipelineHandler(es) == [kind |-> "pipe", id |-> 0, elems |-> es]
RouterHandler == [kind |-> "router", id |-> 0, elems |-> <<>>]
NoHandler == [kind |-> "none", id |-> 0, elems |-> <<>>]

\* What a user handler does when invoked: call Request.Finalize, write the
\* status itself, call its continuation, and return its own outcome or the
\* continuation's
Behaviour(f, w, n, o, out) == [fin |-> f, write |-> w, next |-> n, own |-> o, out |-> out]
NoBehaviour == Behaviour(FALSE, FALSE, FALSE, FALSE, NilOutcome)
Delegate == Behaviour(FALSE, FALSE, TRUE, FALSE, NilOutcome)

\* Outcomes user handlers return; ents[1] is the Entity they return
HandlerEntity == NewBytesEntity("text/plain", RawBytes("hello"))
ValueOutcome == Outcome(Plain(ValueContent("v")), NoError)
ErrorOutcome == Outcome(NilResult, NewErrorf(404, "not found"))
OwnOutcomes ==
  {NilOutcome, ValueOutcome, ErrorOutcome,
   Outcome(Plain(EntityContent(1)), NoError),
   Outcome(NewResponse(201, NoHeaders, EntityContent(1)), NoError),
   Outcome(NilResult, NewError(404, NilErr))}

\* Behaviours of the handlers of a route
Behaviours ==
  {Delegate}
    \cup {Behaviour(FALSE, FALSE, FALSE, TRUE, o) : o \in OwnOutcomes}
    \cup {Behaviour(FALSE, FALSE, TRUE, TRUE, o) : o \in {ValueOutcome, ErrorOutcome}}
    \cup {Behaviour(TRUE, TRUE, FALSE, TRUE, o) : o \in {NilOutcome, ValueOutcome, ErrorOutcome}}
    \cup {Behaviour(TRUE, TRUE, TRUE, FALSE, NilOutcome)}

\* Behaviours of the handlers attached to the service
SvcBehaviours ==
  {Delegate, Behaviour(FALSE, FALSE, FALSE, TRUE, ValueOutcome)}
    \cup {Behaviour(FALSE, FALSE, TRUE, TRUE, o) : o \in {ValueOutcome, ErrorOutcome}}

\* A route pipeline by shape: element k is a plain handler (shape[k] = 0) or a
\* nested pipeline of shape[k] plain handlers
ElementShapes == {0, 1}
RoutePipeline(shape) ==
  [k \in 1..Len(shape) |->
     IF shape[k] = 0 THEN UserHandler(10 * k)
     ELSE PipelineHandler([j \in 1..shape[k] |-> UserHandler(10 * k + j)])]

RouteShapes == UNION {[1..n -> ElementShapes] : n \in 0..MaxRoute}

\* The service pipeline when serving: the handlers attached with Use, then
\* routeRequest (appended by Service.Run)
ServicePipeline(n) == [k \in 1..n |-> UserHandler(k)] \o <<RouterHandler>>

\* The position, in the pipeline it belongs to, of the element a handler is (in)
Position(id) == IF id < 10 THEN id ELSE id \div 10

\* Request wrappers
RequestIds == <<"id-1", "id-2", "id-3">>
\* newRequestWithAttributes: a fresh identity (uuid.Time()), the Attrs map handed
\* in (the map itself, not a copy), no tracer (0 = nil), no traces, no flag set,
\* the time of creation
newRequestWithAttributes(n, a, t) ==
  [Id |-> RequestIds[n], Attrs |-> a, Tracer |-> 0, Traces |-> <<>>,
   flags |-> reqFlagNone, start |-> t]
\* newRequest: newRequestWithAttributes(r, nil)
newRequest(n, t) == newRequestWithAttributes(n, 0, t)

\* A bug Finalize could have: the flag flipped (r.flags ^= reqFlagFinalized)
FinalizeToggles(r) ==
  [r EXCEPT !.flags = IF @ % 2 = 1 THEN @ - reqFlagFinalized ELSE @ + reqFlagFinalized]

\* Request.Finalize: r.flags |= reqFlagFinalized
Finalize(r) == [r EXCEPT !.flags = IF @ % 2 = 1 THEN @ ELSE @ + reqFlagFinalized]
\* (req.flags & reqFlagFinalized) == reqFlagFinalized
IsFinalized(r) == r.flags % 2 = reqFlagFinalized

NoCfg == [userAgent |-> "", accept |-> <<>>, trace |-> FALSE, pipeline |-> <<>>, route |-> <<>>]

RunIdle ==
  /\ cfg = NoCfg /\ reqs = <<>> /\ stack = <<>> /\ ret = NoReturn /\ invoked = <<>>
  /\ sink = <<>> /\ recorder = <<>> /\ ents = <<>> /\ sent = <<>> /\ alog = <<>>
  /\ pc = "off"

\* Stack frames: a call of Pipeline.Next on p, or of h.ServeRequest with the
\* continuation p; req is the Request wrapper passed along
Frame(o, p, h, r) == [op |-> o, p |-> p, h |-> h, beh |-> NoBehaviour, req |-> r, pc |-> "call"]
NextFrame(p, r) == Frame("Next", p, NoHandler, r)
ServeFrame(h, x, r) == Frame("Serve", x, h, r)

Top == stack[Len(stack)]
Pop == SubSeq(stack, 1, Len(stack) - 1)
\* the caller waits, the callee's frame goes on top
Call(f) == Append([stack EXCEPT ![Len(stack)].pc = "wait"], f)
Running(op, at) == pc = "run" /\ stack # <<>> /\ Top.op = op /\ Top.pc = at

\* A bug Next could have: the continuation still holds the handler invoked (p[0:])
NextPassesAll(p) ==
  IF Len(p) < 1 THEN [empty |-> TRUE, out |-> NilOutcome, h |-> NoHandler, x |-> <<>>]
  ELSE [empty |-> FALSE, out |-> NoReturn, h |-> p[1], x |-> p]

\* A bug Next could have: an empty pipeline answered with an error
NextEmptyFails(p) ==
  IF Len(p) < 1
  THEN [empty |-> TRUE, out |-> Outcome(NilResult, OtherError(ForeignError("empty"))),
        h |-> NoHandler, x |-> <<>>]
  ELSE [empty |-> FALSE, out |-> NoReturn, h |-> p[1], x |-> Tail(p)]

\* Pipeline.Next: nothing to do on an empty pipeline, else the handler to invoke
\* and the continuation it is passed
Next(p) ==
  IF Len(p) < 1 THEN [empty |-> TRUE, out |-> NilOutcome, h |-> NoHandler, x |-> <<>>]
  ELSE [empty |-> FALSE, out |-> NoReturn, h |-> p[1], x |-> Tail(p)]

\* A bug Pipeline.ServeRequest could have: the continuation chained after p
ServeRequestChains(p, x) == p \o x

\* Pipeline.ServeRequest: the pipeline dispatched when p is served with the
\* continuation x
ServeRequest(p, x) == p

\* What a user handler returns once its continuation returned r
HandlerResult(b, r) == IF b.own THEN b.out ELSE r

\* A bug handle could have: the response sent without looking at the flag
handleSendIgnoreFlag(c, req, res, err) ==
  LET s1 == sendResponse(SendState("sink", sink), c, req, res, err) IN
  IF c.trace /\ ~s1.panic
  THEN [first |-> s1, traced |-> TRUE,
        second |-> sendResponse([s1 EXCEPT !.w = <<>>, !.to = "recorder"], c, req, res, err)]
  ELSE [first |-> s1, second |-> s1, traced |-> FALSE]

\* Context.handle once the handler chain returned (res, err): nothing for a
\* finalized request, else the response, and with tracing on the same response
\* again into a recorder
handleSend(c, req, res, err) ==
  LET s0 == SendState("sink", sink) IN
  IF IsFinalized(req) THEN [first |-> s0, second |-> s0, traced |-> FALSE]
  ELSE LET s1 == sendResponse(s0, c, req, res, err) IN
       IF c.trace /\ ~s1.panic
       THEN [first |-> s1, traced |-> TRUE,
             second |-> sendResponse([s1 EXCEPT !.w = <<>>, !.to = "recorder"], c, req, res, err)]
       ELSE [first |-> s1, second |-> s1, traced |-> FALSE]

\* Service.ServeHTTP once the service pipeline returned (res, err)
serveSend(c, req, res, err) ==
  LET s0 == SendState("sink", sink) IN
  IF ~IsNilResult(res) \/ err.kind # "nil" THEN sendResponse(s0, c, req, res, err) ELSE s0

AddIdle ==
  /\ heap = <<>> /\ refs = <<>> /\ snap = <<>> /\ want = <<>> /\ from = <<>> /\ nadd = 0

\* No route holds attributes and the clock stands
ReqIdle ==
  /\ amaps = <<>> /\ attr = 0 /\ hist = <<>> /\ tracers = <<>> /\ now = 0

\* One inbound request arrives at a service whose pipelines are set up
Init ==
  /\ AddIdle /\ ReqIdle
  /\ \E n \in 0..MaxSvc, shape \in RouteShapes, t \in BOOLEAN,
        a \in {<<>>, <<"text/html">>} :
       cfg = [userAgent |-> "", accept |-> a, trace |-> t,
              pipeline |-> ServicePipeline(n), route |-> RoutePipeline(shape)]
  /\ reqs = <<>> /\ stack = <<>> /\ ret = NoReturn /\ invoked = <<>>
  /\ sink = <<>> /\ recorder = <<>> /\ ents = <<HandlerEntity>>
  /\ sent = <<>> /\ alog = <<>>
  /\ pc = "idle"

\* Service.ServeHTTP: wrap the request and enter the service pipeline
ServeHTTP ==
  /\ pc = "idle"
  /\ reqs' = <<newRequest(1, now)>>
  /\ stack' = <<NextFrame(cfg.pipeline, 1)>>
  /\ pc' = "run"
  /\ UNCHANGED <<addVars, reqVars, cfg, ret, invoked, sink, recorder, ents, sent, alog>>

\* Pipeline.Next is called
PipelineNext ==
  /\ Running("Next", "call")
  /\ LET n == Next(Top.p) IN
     IF n.empty
     THEN stack' = Pop /\ ret' = n.out
     ELSE stack' = Call(ServeFrame(n.h, n.x, Top.req)) /\ ret' = NoReturn
  /\ UNCHANGED <<addVars, reqVars, cfg, reqs, invoked, sink, recorder, ents, sent, alog, pc>>

\* A bug Next could have: going on to the rest of the pipeline itself once the
\* handler it invoked has returned
PipelineNextRunsOn ==
  /\ Running("Next", "wait") /\ ret.set
  /\ IF Len(Top.p) > 1
     THEN stack' = Append(Pop, NextFrame(Tail(Top.p), Top.req)) /\ ret' = NoReturn
     ELSE stack' = Pop /\ UNCHANGED ret
  /\ UNCHANGED <<addVars, reqVars, cfg, reqs, invoked, sink, recorder, ents, sent, alog, pc>>

\* Pipeline.Next returns what the handler it invoked returned
PipelineNextReturn ==
  /\ Running("Next", "wait") /\ ret.set
  /\ stack' = Pop
  /\ UNCHANGED <<addVars, reqVars, cfg, reqs, ret, invoked, sink, recorder, ents, sent, alog, pc>>

\* Pipeline.ServeRequest: a pipeline served as a handler dispatches itself
PipelineServeRequest ==
  /\ Running("Serve", "call") /\ Top.h.kind = "pipe"
  /\ stack' = Call(NextFrame(ServeRequest(Top.h.elems, Top.p), Top.req))
  /\ ret' = NoReturn
  /\ UNCHANGED <<addVars, reqVars, cfg, reqs, invoked, sink, recorder, ents, sent, alog, pc>>

\* Pipeline.ServeRequest returns what its Next returned
PipelineServeReturn ==
  /\ Running("Serve", "wait") /\ Top.h.kind = "pipe" /\ ret.set
  /\ stack' = Pop
  /\ UNCHANGED <<addVars, reqVars, cfg, reqs, ret, invoked, sink, recorder, ents, sent, alog, pc>>

\* HandlerFunc.ServeRequest: a user handler runs, up to its return or to its
\* call of the continuation
HandlerServe ==
  /\ Running("Serve", "call") /\ Top.h.kind = "func"
  /\ \E b \in (IF Top.req = 1 THEN SvcBehaviours ELSE Behaviours) :
       /\ invoked' = Append(invoked, [id |-> Top.h.id, beh |-> b, req |-> Top.req,
                                     depth |-> Len(stack), x |-> Top.p])
       /\ reqs' = IF b.fin THEN [reqs EXCEPT ![Top.req] = Finalize(@)] ELSE reqs
       /\ sink' = IF b.write THEN Append(sink, ByHandler(WriteHeader(StatusOK))) ELSE sink
       /\ IF b.next
          THEN /\ stack' = Append([stack EXCEPT ![Len(stack)].pc = "wait",
                                                 ![Len(stack)].beh = b],
                                   NextFrame(Top.p, Top.req))
               /\ ret' = NoReturn
          ELSE /\ stack' = Pop
               /\ ret' = b.out
  /\ UNCHANGED <<addVars, reqVars, cfg, recorder, ents, sent, alog, pc>>

\* A user handler returns after its continuation returned
HandlerReturn ==
  /\ Running("Serve", "wait") /\ Top.h.kind = "func" /\ ret.set
  /\ stack' = Pop
  /\ ret' = HandlerResult(Top.beh, ret)
  /\ UNCHANGED <<addVars, reqVars, cfg, reqs, invoked, sink, recorder, ents, sent, alog, pc>>

\* Service.routeRequest, the router and the route's closure (Context.Handle):
\* a new Request wrapper is made and Context.handle starts; with tracing on it
\* reads the request body first, and answers 500 if that fails
RouteRequest ==
  /\ Running("Serve", "call") /\ Top.h.kind = "router"
  /\ reqs' = Append(reqs, newRequestWithAttributes(Len(reqs) + 1, attr, now))
  /\ \E bodyFails \in {FALSE, cfg.trace} :
       IF bodyFails
       THEN LET s == sendResponse(SendState("sink", sink), cfg, reqs'[Len(reqs')], NilResult,
                                  NewError(StatusInternalServerError, ForeignError("read")))
            IN /\ sink' = s.w /\ ents' = s.ents /\ sent' = s.sent /\ alog' = s.alog
               /\ stack' = IF s.panic THEN <<>> ELSE Pop
               /\ pc' = IF s.panic THEN "panic" ELSE pc
               /\ ret' = NilOutcome
       ELSE /\ stack' = Call(ServeFrame(PipelineHandler(cfg.route), <<>>, Len(reqs')))
            /\ ret' = NoReturn
            /\ UNCHANGED <<sink, ents, sent, alog, pc>>
  /\ UNCHANGED <<addVars, reqVars, cfg, invoked, recorder>>

\* Context.handle after the route's handler returned, then routeRequest
\* returning (nil, nil)
HandleReturn ==
  /\ Running("Serve", "wait") /\ Top.h.kind = "router" /\ ret.set
  /\ LET s == handleSend(cfg, reqs[Len(reqs)], ret.res, ret.err) IN
     /\ sink' = s.first.w
     /\ recorder' = IF s.traced THEN s.second.w ELSE recorder
     /\ ents' = s.second.ents /\ sent' = s.second.sent /\ alog' = s.second.alog
     /\ stack' = IF s.second.panic THEN <<>> ELSE Pop
     /\ pc' = IF s.second.panic THEN "panic" ELSE pc
  /\ ret' = NilOutcome
  /\ UNCHANGED <<addVars, reqVars, cfg, reqs, invoked>>

\* Service.ServeHTTP after the service pipeline returned
ServeHTTPReturn ==
  /\ pc = "run" /\ stack = <<>> /\ ret.set
  /\ LET s == serveSend(cfg, reqs[1], ret.res, ret.err) IN
     /\ sink' = s.w /\ ents' = s.ents /\ sent' = s.sent /\ alog' = s.alog
     /\ pc' = IF s.panic THEN "panic" ELSE "done"
  /\ UNCHANGED <<addVars, reqVars, cfg, reqs, stack, ret, invoked, recorder>>

RunNext ==
  \/ ServeHTTP
  \/ PipelineNext
  \/ PipelineNextReturn
  \/ PipelineServeRequest
  \/ PipelineServeReturn
  \/ HandlerServe
  \/ HandlerReturn
  \/ RouteRequest
  \/ HandleReturn
  \/ ServeHTTPReturn

Spec == Init /\ [][RunNext]_vars

----------------------------------------------------------------------------
(* The response of one (result, error) pair: Service.sendResponse on every *)
(* shape of result and error                                                *)

Contents ==
  {NilContent, NoopContent, EntityContent(1), RawContent("[1]"), ValueContent("v"),
   BadContent}

Results ==
  {Plain(c) : c \in Contents}
    \cup {NewResponse(s, h, c) : s \in {201, 404}, h \in HeaderMaps, c \in Contents}

Causes ==
  {NilErr} \cup {ForeignError(m) : m \in Messages}

Errors ==
  {SetHeaders(NewError(s, c), h) : s \in {404, 500}, c \in Causes, h \in HeaderMaps}
    \cup {SetHeaders(NewErrorf(s, m), h) : s \in {404, 500}, m \in Messages, h \in HeaderMaps}
    \cup {OtherError(ForeignError(m)) : m \in Messages}
    \cup {SetDetail(NewErrorf(404, "not found"), d) : d \in Details}
    \cup {SetDetail(NewError(404, DetailedError("not found", d)), NoDetail) : d \in Details}

\* What a pipeline can return: a result and no error, or an error (with or
\* without a result beside it)
Outcomes ==
  {Outcome(r, NoError) : r \in Results}
    \cup {Outcome(r, e) : r \in {NilResult, Plain(ValueContent("v"))}, e \in Errors}

SendInit ==
  /\ AddIdle /\ ReqIdle
  /\ \E ua \in {"", "svc/1"}, a \in AcceptHeaders :
       cfg = [userAgent |-> ua, accept |-> a, trace |-> FALSE,
              pipeline |-> <<>>, route |-> <<>>]
  /\ ret \in Outcomes
  /\ reqs = <<newRequest(1, 0)>> /\ stack = <<>> /\ invoked = <<>>
  /\ sink = <<>> /\ recorder = <<>> /\ ents = <<HandlerEntity>>
  /\ sent = <<>> /\ alog = <<>>
  /\ pc = "send"

\* Service.sendResponse(rsp, req, res, err)
Respond ==
  /\ pc = "send"
  /\ LET s == sendResponse(SendState("sink", sink), cfg, reqs[1], ret.res, ret.err) IN
     /\ sink' = s.w /\ ents' = s.ents /\ sent' = s.sent /\ alog' = s.alog
     /\ pc' = IF s.panic THEN "panic" ELSE "sent"
  /\ UNCHANGED <<addVars, reqVars, cfg, reqs, stack, ret, invoked, recorder>>

SendNext == Respond

SpecSend == SendInit /\ [][SendNext]_vars

----------------------------------------------------------------------------
(* Request wrappers: attributes, traces and the finalized flag.  Requests   *)
(* of one route are created by the route's closure (Context.Handle) and are *)
(* worked on in any interleaving                                            *)

\* Requests in flight at once, and operations explored on them
MaxReqs == 2
MaxOps == 5
MaxTracers == 1

\* Attrs values: maps from string keys to values
NoAttrs == [k \in {} |-> ""]
\* the maps handlers put
PutMaps ==
  {[k \in {"a"} |-> "x"], [k \in {"b"} |-> "y"], [k \in {"a", "b"} |-> "z"]}
\* the Attrs arguments a route is registered with (a ...Attrs)
RouteAttrs ==
  {<<>>, <<[k \in {"a"} |-> "r"]>>, <<[k \in {"a"} |-> "r"], [k \in {"a", "c"} |-> "s"]>>}

\* for k, v := range a { m[k] = v }
Merge(m, a) ==
  [k \in DOMAIN m \cup DOMAIN a |-> IF k \in DOMAIN a THEN a[k] ELSE m[k]]

RECURSIVE MergeAll(_)
MergeAll(as) ==
  IF as = <<>> THEN NoAttrs
  ELSE Merge(MergeAll(SubSeq(as, 1, Len(as) - 1)), as[Len(as)])

\* mergeAttrs: nil when called without arguments, else a new map holding the
\* arguments merged in order
mergeAttrs(hp, as) ==
  IF Len(as) = 0 THEN [amaps |-> hp, val |-> 0]
  ELSE [amaps |-> Append(hp, MergeAll(as)), val |-> Len(hp) + 1]

\* Request.putAttributes(a), a being a map the caller has just made: it becomes
\* the request's map when the request has none, else it is merged into the map
\* the request holds
putAttributes(hp, r, a) ==
  IF r.Attrs = 0
  THEN [amaps |-> Append(hp, a), req |-> [r EXCEPT !.Attrs = Len(hp) + 1]]
  ELSE [amaps |-> [hp EXCEPT ![r.Attrs] = Merge(@, a)], req |-> r]

\* trace.Trace values, by what Message() and Error() return (err "" = nil)
NewMessage(m) == [msg |-> m, err |-> ""]
NewTraceError(e) == [msg |-> "", err |-> e]
TraceValues == {NewMessage("m"), NewTraceError("e"), NewTraceError("")}

\* A tracer sink: the lines LazyPrintf was handed and the mark SetError sets
NewTracer == [lines |-> <<>>, errored |-> FALSE]
\* tr.LazyPrintf("%s", t.Message())
InfoLine(t) == [err |-> FALSE, text |-> t.msg]
\* tr.LazyPrintf("[ERR] %v", err)
ErrLine(t) == [err |-> TRUE, text |-> t.err]

\* A bug Request.Trace could have: the error line is printed, SetError is not called
TraceNoSetError(trs, r, t) ==
  [req |-> [r EXCEPT !.Traces = Append(@, t)],
   tracers |->
     IF r.Tracer = 0 THEN trs
     ELSE [trs EXCEPT ![r.Tracer].lines =
             Append(@, IF t.err = "" THEN InfoLine(t) ELSE ErrLine(t))]]

\* Request.Trace: the trace is appended; with a Tracer attached it is printed to
\* it, as a message when it carries no error, else as an error that marks the
\* tracer
Trace(trs, r, t) ==
  [req |-> [r EXCEPT !.Traces = Append(@, t)],
   tracers |->
     IF r.Tracer = 0 THEN trs
     ELSE IF t.err = ""
       THEN [trs EXCEPT ![r.Tracer].lines = Append(@, InfoLine(t))]
       ELSE [trs EXCEPT ![r.Tracer].lines = Append(@, ErrLine(t)),
                        ![r.Tracer].errored = TRUE]]

\* The attribute bag request r shows
Bag(r) == IF reqs[r].Attrs = 0 THEN NoAttrs ELSE amaps[reqs[r].Attrs]

\* A route has been registered: attr := mergeAttrs(a...)
ReqInit ==
  /\ AddIdle /\ RunIdle
  /\ \E as \in RouteAttrs :
       LET m == mergeAttrs(<<>>, as) IN amaps = m.amaps /\ attr = m.val
  /\ hist = <<>> /\ tracers = <<>> /\ now = 0

\* The route's closure runs for a new inbound request:
\* newRequestWithAttributes(req, attr)
ReqHandle ==
  /\ now < MaxOps /\ Len(reqs) < MaxReqs
  /\ reqs' = Append(reqs, newRequestWithAttributes(Len(reqs) + 1, attr, now))
  /\ hist' = Append(hist, IF attr = 0 THEN NoAttrs ELSE amaps[attr])
  /\ now' = now + 1
  /\ UNCHANGED <<addVars, cfg, stack, ret, invoked, sink, recorder, ents, sent, alog, pc,
                 amaps, attr, tracers>>

\* Service.ServeHTTP wraps a new inbound request: newRequest(req)
ReqServe ==
  /\ now < MaxOps /\ Len(reqs) < MaxReqs
  /\ reqs' = Append(reqs, newRequest(Len(reqs) + 1, now))
  /\ hist' = Append(hist, NoAttrs)
  /\ now' = now + 1
  /\ UNCHANGED <<addVars, cfg, stack, ret, invoked, sink, recorder, ents, sent, alog, pc,
                 amaps, attr, tracers>>

\* A handler of request r calls r.putAttributes(a)
ReqPutAttributes ==
  \E r \in 1..Len(reqs), a \in PutMaps :
    /\ now < MaxOps
    /\ LET u == putAttributes(amaps, reqs[r], a) IN
       /\ amaps' = u.amaps
       /\ reqs' = [reqs EXCEPT ![r] = u.req]
    /\ hist' = [hist EXCEPT ![r] = Merge(@, a)]
    /\ now' = now + 1
    /\ UNCHANGED <<addVars, cfg, stack, ret, invoked, sink, recorder, ents, sent, alog, pc,
                   attr, tracers>>

\* A handler of request r calls r.Finalize()
ReqFinalize ==
  \E r \in 1..Len(reqs) :
    /\ now < MaxOps
    /\ reqs' = [reqs EXCEPT ![r] = Finalize(@)]
    /\ now' = now + 1
    /\ UNCHANGED <<addVars, cfg, stack, ret, invoked, sink, recorder, ents, sent, alog, pc,
                   amaps, attr, hist, tracers>>

\* A handler of request r calls r.Trace(t)
ReqTrace ==
  \E r \in 1..Len(reqs), t \in TraceValues :
    /\ now < MaxOps
    /\ LET u == Trace(tracers, reqs[r], t) IN
       /\ reqs' = [reqs EXCEPT ![r] = u.req]
       /\ tracers' = u.tracers
    /\ now' = now + 1
    /\ UNCHANGED <<addVars, cfg, stack, ret, invoked, sink, recorder, ents, sent, alog, pc,
                   amaps, attr, hist>>

\* A handler of request r sets r.Tracer (an exported field): to a tracer it has
\* just made, to one another request holds, or to nil
ReqSetTracer ==
  \E r \in 1..Len(reqs), tr \in 0..(Len(tracers) + 1) :
    /\ now < MaxOps /\ tr <= MaxTracers /\ tr # reqs[r].Tracer
    /\ tracers' = IF tr = Len(tracers) + 1 THEN Append(tracers, NewTracer) ELSE tracers
    /\ reqs' = [reqs EXCEPT ![r].Tracer = tr]
    /\ now' = now + 1
    /\ UNCHANGED <<addVars, cfg, stack, ret, invoked, sink, recorder, ents, sent, alog, pc,
                   amaps, attr, hist>>

\* The dispatcher answers request r: sendResponse(rsp, r, nil, nil) on the
\* writer of r's exchange
ReqSend ==
  \E r \in 1..Len(reqs) :
    /\ now < MaxOps
    /\ LET s == sendResponse(SendState("sink", <<>>), cfg, reqs[r], NilResult, NoError) IN
       /\ sink' = s.w /\ ents' = s.ents /\ sent' = s.sent /\ alog' = s.alog
    /\ now' = now + 1
    /\ UNCHANGED <<addVars, cfg, reqs, stack, ret, invoked, recorder, pc,
                   amaps, attr, hist, tracers>>

ReqNext ==
  \/ ReqHandle
  \/ ReqServe
  \/ ReqPutAttributes
  \/ ReqFinalize
  \/ ReqTrace
  \/ ReqSetTracer
  \/ ReqSend

SpecReq == ReqInit /\ [][ReqNext]_vars

----------------------------------------------------------------------------
(* Pipeline composition: pipelines are built by Add, as Service.Use and    *)
(* Context.Use do                                                          *)

\* ids of the plain handlers an Add call may append
HandlerIds == {8, 9}

\* Pipelines the program holds before the explored calls: nil, an empty non-nil
\* pipeline, and the pipeline three Add calls build from nil
Built1 == Add(<<>>, NilSlice, FuncHandler(1))
Built2 == Add(Built1.heap, Built1.val, FuncHandler(2))
Built3 == Add(Built2.heap, Built2.val, FuncHandler(3))
Empty0 == Make(Built3.heap, 0)

AddInit ==
  /\ RunIdle /\ ReqIdle
  /\ heap = Empty0.heap
  /\ refs = <<NilSlice, Empty0.val, Built3.val>>
  /\ snap = <<<<>>, <<>>, Deep(Empty0.heap, Built3.val)>>
  /\ want = <<<<>>, <<>>, <<1, 2, 3>>>>
  /\ from = <<0, 0, 0>>
  /\ nadd = 0

\* q := p.Add(HandlerFunc(f)) for an obtained pipeline p
AddFunc ==
  \E r \in 1..Len(refs), i \in HandlerIds :
    /\ nadd < MaxAdds
    /\ LET a == Add(heap, refs[r], FuncHandler(i)) IN
       /\ heap' = a.heap
       /\ refs' = Append(refs, a.val)
       /\ snap' = Append(snap, Deep(a.heap, a.val))
       /\ want' = Append(want, Append(want[r], i))
       /\ from' = Append(from, r)
    /\ nadd' = nadd + 1
    /\ UNCHANGED <<runVars, reqVars>>

\* q := p.Add(x) for obtained pipelines p and x
AddPipeline ==
  \E r \in 1..Len(refs), x \in 1..Len(refs) :
    /\ nadd < MaxAdds
    /\ LET a == Add(heap, refs[r], PipeHandler(refs[x])) IN
       /\ heap' = a.heap
       /\ refs' = Append(refs, a.val)
       /\ snap' = Append(snap, Deep(a.heap, a.val))
       /\ want' = Append(want, want[r] \o want[x])
       /\ from' = Append(from, r)
    /\ nadd' = nadd + 1
    /\ UNCHANGED <<runVars, reqVars>>

AddNext == AddFunc \/ AddPipeline

SpecAdd == AddInit /\ [][AddNext]_vars

----------------------------------------------------------------------------
(* Routes of a Context: handlers are attached with Context.Use, routes are *)
(* registered with Context.HandleFunc, then the service runs and one       *)
(* inbound request is routed to a registered route.  refs[1] is the        *)
(* context's pipeline, refs[k] for k > 1 the handler Handle was given by   *)
(* the registration k - 1.                                                  *)

MaxUses == 2
MaxRoutes == 2

\* the route function of the registration that yields refs[k]
RouteFunc(k) == 10 * k

\* newContext: no pipeline; Built2 is a Pipeline value the program holds, of the
\* handlers 1 and 2
RouteInit ==
  /\ ReqIdle
  /\ heap = Built2.heap
  /\ refs = <<NilSlice>>
  /\ snap = <<<<>>>> /\ want = <<<<>>>> /\ from = <<0>> /\ nadd = 0
  /\ cfg = NoCfg /\ reqs = <<>> /\ stack = <<>> /\ ret = NoReturn /\ invoked = <<>>
  /\ sink = <<>> /\ recorder = <<>> /\ ents = <<HandlerEntity>>
  /\ sent = <<>> /\ alog = <<>>
  /\ pc = "setup"

\* c.Use(h) for a plain handler h, or c.Use(p) for the Pipeline p the program
\* holds: c.pipeline = c.pipeline.Add(e)
CtxUse ==
  \E e \in {FuncHandler(i) : i \in HandlerIds} \cup {PipeHandler(Built2.val)} :
    /\ pc = "setup" /\ nadd < MaxUses
    /\ LET a == Add(heap, refs[1], e) IN
       /\ heap' = a.heap
       /\ refs' = [refs EXCEPT ![1] = a.val]
       /\ snap' = [snap EXCEPT ![1] = Deep(a.heap, a.val)]
       /\ want' = [want EXCEPT ![1] = @ \o (IF e.kind = "pipe" THEN <<1, 2>> ELSE <<e.id>>)]
    /\ nadd' = nadd + 1
    /\ UNCHANGED <<from, runVars, reqVars>>

\* c.HandleFunc(u, f): Handle is given c.pipeline.Add(HandlerFunc(f))
CtxHandleFunc ==
  /\ pc = "setup" /\ Len(refs) <= MaxRoutes
  /\ LET a == Add(heap, refs[1], FuncHandler(RouteFunc(Len(refs) + 1))) IN
     /\ heap' = a.heap
     /\ refs' = Append(refs, a.val)
     /\ snap' = Append(snap, Deep(a.heap, a.val))
     /\ want' = Append(want, Append(want[1], RouteFunc(Len(refs) + 1)))
     /\ from' = Append(from, 1)
  /\ UNCHANGED <<nadd, runVars, reqVars>>

\* Service.Run, and the router's match of the inbound request: route k is the
\* one that will serve it
CtxRun ==
  \E k \in 2..Len(refs) :
    /\ pc = "setup"
    /\ cfg' = [cfg EXCEPT !.pipeline = ServicePipeline(0), !.route = Deep(heap, refs[k])]
    /\ pc' = "idle"
    /\ UNCHANGED <<addVars, reqVars, reqs, stack, ret, invoked, sink, recorder, ents, sent, alog>>

RouteNext ==
  \/ CtxUse
  \/ CtxHandleFunc
  \/ CtxRun
  \/ RunNext

SpecRoute == RouteInit /\ [][RouteNext]_vars

----------------------------------------------------------------------------
(* Claims on pipeline composition *)

\* C2: after any sequence of Add calls from any receiver (nil, empty, non-empty)
\* with plain handlers or pipelines as arguments, every pipeline obtained holds
\* exactly the plain handlers in call order, each pipeline argument replaced by
\* its own elements, and no element is itself a Pipeline.
C2_AddFlattens ==
  \A i \in 1..Len(refs) : Deep(heap, refs[i]) = Flat(want[i])

\* C3: Add never mutates a previously obtained pipeline: every pipeline value
\* obtained so far still has the length and the elements it had when obtained.
C3_AddNeverMutates ==
  \A i \in 1..Len(refs) :
    /\ Len(snap[i]) = refs[i].len
    /\ Deep(heap, refs[i]) = snap[i]

\* C3 witness: two different Add calls were made on the same pipeline, one that
\* has spare capacity in its backing array
C3_Witness ==
  \E i, j \in 1..Len(refs) :
    /\ i # j /\ from[i] # 0 /\ from[i] = from[j]
    /\ refs[from[i]].cap > refs[from[i]].len
    /\ snap[i] # snap[j]

----------------------------------------------------------------------------
(* Claims on dispatch *)

\* The handler chain of the route has returned to Context.handle
RouteReturned == Running("Serve", "wait") /\ Top.h.kind = "router" /\ ret.set

\* The service pipeline has returned to Service.ServeHTTP
ServiceReturned == pc = "run" /\ stack = <<>> /\ ret.set

\* The invoked handlers that were passed Request wrapper r, in invocation order
EntriesOf(r) == SelectSeq(invoked, LAMBDA e : e.req = r)

\* The outcome of a chain of invoked handlers: that of the first one returning
\* its own outcome, (nil, nil) when all pass their continuation's outcome on
RECURSIVE FirstOwn(_)
FirstOwn(es) ==
  IF es = <<>> THEN NilOutcome
  ELSE IF Head(es).beh.own THEN Head(es).beh.out
  ELSE FirstOwn(Tail(es))

\* The pipeline a user handler is an element of, and its index there
PipelineOf(id) ==
  IF id < 10 THEN cfg.pipeline
  ELSE IF id % 10 = 0 THEN cfg.route
  ELSE cfg.route[id \div 10].elems
IndexOf(id) == IF id < 10 THEN id ELSE IF id % 10 = 0 THEN id \div 10 ELSE id % 10

\* Handler a comes after handler b for the same request
After(a, b) ==
  /\ a.req = b.req
  /\ \/ Position(a.id) > Position(b.id)
     \/ Position(a.id) = Position(b.id) /\ a.id > b.id

\* C1: in Context.handle, when a handler of the chain has finalized the request,
\* then whatever (result, error) the chain returns the dispatcher sends nothing:
\* no header, status or body reaches the sink or the trace recorder, no entity is
\* read; every status write on the sink is a handler's own, so a handler that
\* finalizes and writes the status itself yields exactly one status write.
\* End to end, with the service pipeline returning (nil, nil) as routeRequest does.
C1_FinalizedNoSend ==
  /\ [][(RouteReturned /\ IsFinalized(reqs[Len(reqs)])) =>
          /\ sink' = sink /\ recorder' = recorder /\ sent' = sent /\ ents' = ents
          /\ \A i \in 1..Len(sink') : sink'[i].by = "handler"
          /\ Cardinality(StatusWrites(sink')) =
               Cardinality({k \in 1..Len(invoked) : invoked[k].beh.write})]_vars
  /\ [](( /\ pc = "done" /\ Len(reqs) = 2 /\ IsFinalized(reqs[2])
          /\ \A k \in 1..Len(invoked) : invoked[k].req = 1 => ~invoked[k].beh.own) =>
         /\ sent = <<>>
         /\ Cardinality(StatusWrites(sink)) =
              Cardinality({k \in 1..Len(invoked) : invoked[k].beh.write}))

\* C1 witness: a route handler finalized, wrote the status itself and returned
\* an error; the request is done and the sink holds that one status write
C1_Witness ==
  /\ pc = "done" /\ Len(reqs) = 2 /\ IsFinalized(reqs[2])
  /\ \E k \in 1..Len(invoked) :
       invoked[k].beh.fin /\ invoked[k].beh.write /\ invoked[k].beh.out = ErrorOutcome
  /\ Cardinality(StatusWrites(sink)) = 1

\* C4: when an invoked handler returns without calling its continuation, no
\* handler after it is invoked for that request, and the outcome its chain
\* returns is the one fixed by the handlers up to it.
C4_ShortCircuit ==
  \A k \in 1..Len(invoked) :
    ~invoked[k].beh.next =>
      /\ \A j \in 1..Len(invoked) : ~After(invoked[j], invoked[k])
      /\ (invoked[k].req = 2 /\ RouteReturned) =>
           ret = FirstOwn(SelectSeq(SubSeq(invoked, 1, k), LAMBDA e : e.req = 2))
      /\ (invoked[k].req = 1 /\ ServiceReturned) =>
           ret = FirstOwn(SelectSeq(SubSeq(invoked, 1, k), LAMBDA e : e.req = 1))

\* C4 witness: the first of two route handlers returned its own outcome without
\* calling its continuation, and the chain has returned
C4_Witness ==
  /\ RouteReturned /\ Len(cfg.route) = 2 /\ EntriesOf(2) # <<>>
  /\ ~EntriesOf(2)[1].beh.next /\ EntriesOf(2)[1].id = 10
  /\ ret = ValueOutcome

\* C5: Next on a non-empty pipeline invokes its first handler, once, with exactly
\* the remaining handlers as continuation, and returns what that handler
\* returned; when every handler calls Next on its continuation once, the
\* handlers run in pipeline order, each exactly once.
C5_Invoked ==
  /\ \A k \in 1..Len(invoked) :
       LET e == invoked[k]
           P == PipelineOf(e.id)
       IN /\ P[IndexOf(e.id)] = UserHandler(e.id)
          /\ e.x = SubSeq(P, IndexOf(e.id) + 1, Len(P))
  /\ \A j, k \in 1..Len(invoked) :
       j < k => /\ invoked[j].id # invoked[k].id
                /\ PipelineOf(invoked[j].id) = PipelineOf(invoked[k].id)
                     => IndexOf(invoked[j].id) < IndexOf(invoked[k].id)
  /\ (RouteReturned /\ \A k \in 1..Len(invoked) : invoked[k].beh.next
        /\ \A i \in 1..Len(cfg.route) : cfg.route[i].kind = "func") =>
       /\ [k \in 1..Len(EntriesOf(2)) |-> EntriesOf(2)[k].id]
            = [k \in 1..Len(cfg.route) |-> 10 * k]
       /\ [k \in 1..Len(EntriesOf(1)) |-> EntriesOf(1)[k].id]
            = [k \in 1..(Len(cfg.pipeline) - 1) |-> k]

C5_NextInOrder ==
  /\ []C5_Invoked
  /\ [][(Running("Next", "wait") /\ ret.set) => (ret' = ret /\ stack' = Pop)]_vars

\* C5 witness: both handlers of a two-handler route delegated, and the chain has
\* returned
C5_Witness ==
  /\ RouteReturned /\ Len(cfg.route) = 2 /\ Len(EntriesOf(2)) = 2
  /\ \A k \in 1..Len(invoked) : invoked[k].beh.next
  /\ EntriesOf(2)[1].beh.own /\ ret = ErrorOutcome

\* C6: Next on an empty pipeline (nil or zero-length) returns (nil, nil), invokes
\* no handler and writes nothing to the response sink.
C6_NextEmpty ==
  [][(Running("Next", "call") /\ Len(Top.p) = 0) =>
       /\ ret' = NilOutcome /\ stack' = Pop
       /\ invoked' = invoked /\ sink' = sink /\ recorder' = recorder
       /\ sent' = sent]_vars

\* C6 witness: a route whose pipeline is empty was dispatched and Next returned
\* (nil, nil) to it
C6_Witness ==
  /\ Running("Serve", "wait") /\ Top.h.kind = "pipe" /\ Top.h.elems = <<>>
  /\ ret = NilOutcome

\* C8: the dispatcher reads a response Entity to its end at most once per
\* request, tracing on or off.
C8_EntityReadOnce ==
  \A e \in 1..Len(ents) : ents[e].reads <= 1

\* The handlers of the pipeline embedded at an element of the route
Embedded(id) == id >= 10 /\ id % 10 # 0

\* C18: a Pipeline served as a Handler dispatches itself and nothing else,
\* whatever continuation it is passed, and returns what its own Next returned;
\* the handlers embedded in it get only the embedded pipeline's remaining
\* handlers as continuation, and no handler after the embedded pipeline is
\* invoked through it.
C18_Continuations ==
  \A k \in 1..Len(invoked) :
    Embedded(invoked[k].id) =>
      /\ \A i \in 1..Len(invoked[k].x) :
           /\ Embedded(invoked[k].x[i].id)
           /\ Position(invoked[k].x[i].id) = Position(invoked[k].id)
      /\ \A j \in 1..Len(invoked) :
           ~(invoked[j].req = invoked[k].req
               /\ Position(invoked[j].id) > Position(invoked[k].id))

C18_PipelineIgnoresContinuation ==
  /\ []C18_Continuations
  /\ [][(Running("Serve", "call") /\ Top.h.kind = "pipe") =>
          /\ Len(stack') = Len(stack) + 1
          /\ stack'[Len(stack')] = NextFrame(Top.h.elems, Top.req)
          /\ invoked' = invoked]_vars
  /\ [][(Running("Serve", "wait") /\ Top.h.kind = "pipe" /\ ret.set) =>
          (ret' = ret /\ stack' = Pop)]_vars

\* C18 witness: a route of an embedded pipeline followed by a plain handler; the
\* embedded handler called its continuation, the chain returned and the plain
\* handler was not invoked
C18_Witness ==
  /\ RouteReturned /\ Len(cfg.route) = 2
  /\ cfg.route[1].kind = "pipe" /\ cfg.route[2].kind = "func"
  /\ \E k \in 1..Len(invoked) : invoked[k].id = 11 /\ invoked[k].beh.next
  /\ \A k \in 1..Len(invoked) : invoked[k].id # 20

\* C19: for one inbound request routed to a Context route, the dispatcher writes
\* a status line to the response sink at most once, whatever the service-level
\* and route handlers do.
C19_OneStatusWrite ==
  Cardinality({i \in StatusWrites(sink) : sink[i].by = "dispatcher"}) <= 1

\* C23: in what the dispatcher sends, every header (those supplied with the
\* response or error, and the encoder's Content-Type) is applied to the sink
\* before the status line is written and no header after it, and the status
\* line is written before any body byte.
C23_HeadersThenStatusThenBody ==
  \A i, j \in 1..Len(sink) :
    (sink[i].by = "dispatcher" /\ sink[j].by = "dispatcher" /\ i < j) =>
      /\ ~(sink[i].ev = "status" /\ sink[j].ev \in {"set", "add"})
      /\ ~(sink[i].ev = "write" /\ sink[j].ev = "status")

\* C21: one Request wrapper, with one identity, exists per inbound request: the
\* handlers of the service pipeline and those of the route are passed the same
\* wrapper, and every X-Request-Id the dispatcher sets is the identity they
\* were passed.
C21_OneWrapper ==
  /\ Len(reqs) <= 1
  /\ \A j, k \in 1..Len(invoked) : invoked[j].req = invoked[k].req
  /\ \A i \in 1..Len(sink) :
       (sink[i].ev = "set" /\ sink[i].key = "X-Request-Id") =>
         \A k \in 1..Len(invoked) : sink[i].val = reqs[invoked[k].req].Id

----------------------------------------------------------------------------
(* Claims on the response mapping and encoding *)

\* C7: when json.Marshal fails on the default branch of the default encoder, the
\* status written to the sink is 500 whatever status was requested, no body is
\* written and an error is returned.
C7_MarshalFailure500 ==
  (pc = "sent" /\ Len(sent) = 1 /\ sent[1].content.kind = "Bad") =>
    /\ StatusWrites(sink) # {}
    /\ \A i \in StatusWrites(sink) : sink[i].code = StatusInternalServerError
    /\ BodyWrites(sink) = {}
    /\ alog # <<>> /\ alog[Len(alog)] = "encode"

\* C9: on the error path, for every error and every Accept header, the client
\* gets the error's status line and a non-empty body, a JSON document by default
\* and an HTML document when text/html is accepted, and rendering never fails.
C9_ErrorHasBody ==
  (pc \in {"sent", "panic"} /\ ret.err.kind # "nil") =>
    /\ pc # "panic"
    /\ StatusWrites(sink) # {}
    /\ \E i \in BodyWrites(sink) :
         sink[i].body.fmt = IF Accepts(cfg.accept, "text/html") THEN "html" ELSE "json"

\* C10: a structured Error is answered with its status, its headers and its cause
\* as the content (the HTML document of that cause when text/html is accepted);
\* any other error with status 500 and a basic error of status 500 carrying the
\* error's message.
C10_ErrorMapping ==
  (pc = "sent" /\ ret.err.kind # "nil") =>
    LET e == ret.err
        status == IF e.kind = "Error" THEN e.Status ELSE StatusInternalServerError
        headers == IF e.kind = "Error" THEN e.Headers ELSE NoHeaders
        cause == IF e.kind = "Error" THEN e.Cause
                 ELSE BasicError(StatusInternalServerError, e.Cause.msg)
    IN /\ Len(sent) = 1
       /\ sent[1].status = status
       /\ sent[1].headers = headers
       /\ \A k \in DOMAIN headers : \E i \in 1..Len(sink) : sink[i] = HeaderAdd(k, headers[k])
       /\ \A i \in StatusWrites(sink) : sink[i].code = status
       /\ IF Accepts(cfg.accept, "text/html")
          THEN /\ sent[1].content.kind = "Entity"
               /\ \E i \in BodyWrites(sink) :
                    /\ sink[i].body.fmt = "html"
                    /\ sink[i].body.status = status
                    /\ sink[i].body.msg = EscapeString(cause.msg)
          ELSE sent[1].content = ErrorContent(cause)

\* C10 witness: a structured Error with status 404, headers and a cause has been
\* answered
C10_Witness ==
  /\ pc = "sent" /\ ret.err.kind = "Error" /\ ret.err.Status = 404
  /\ ret.err.Headers # NoHeaders /\ ret.err.Cause.kind = "foreign"
  /\ StatusWrites(sink) # {}

\* C11: with a nil error, a Response envelope is sent with exactly its own
\* status code, headers and entity, and any other result (nil included) with
\* status 200, no headers and the result itself as the entity.
C11_SuccessMapping ==
  (pc = "sent" /\ ret.err.kind = "nil") =>
    LET res == ret.res
        status == IF res.isResp THEN res.StatusCode ELSE StatusOK
        headers == IF res.isResp THEN res.Headers ELSE NoHeaders
    IN /\ Len(sent) = 1
       /\ sent[1].status = status
       /\ sent[1].headers = headers
       /\ sent[1].content = res.Entity
       /\ \A i \in StatusWrites(sink) : sink[i].code = status
       /\ \A k \in DOMAIN headers : \E i \in 1..Len(sink) : sink[i] = HeaderAdd(k, headers[k])

\* C11 witness: an envelope with status 201, a header and an Entity has been
\* sent, the status line written
C11_Witness ==
  /\ pc = "sent" /\ ret.err.kind = "nil" /\ ret.res.isResp
  /\ ret.res.StatusCode = 201 /\ ret.res.Headers # NoHeaders
  /\ ret.res.Entity.kind = "Entity"
  /\ StatusWrites(sink) # {}

\* C12: an Error with status 404 whose cause has the message "not found",
\* however the Error was made, is answered with status 404 and, when text/html
\* is not accepted, the JSON body {"status":404,"message":"not found"} under
\* Content-Type application/json; when it is accepted, an HTML document under
\* Content-Type text/html holding the escaped message, and no JSON body.
C12_ErrorNegotiation ==
  (/\ pc = "sent" /\ ret.err.kind = "Error" /\ ret.err.Status = 404
   /\ ret.err.Cause.kind # "nil" /\ ret.err.Cause.msg = "not found") =>
    /\ \E i \in StatusWrites(sink) : sink[i].code = 404
    /\ IF Accepts(cfg.accept, "text/html")
       THEN /\ \E i \in 1..Len(sink) : sink[i] = HeaderAdd("Content-Type", "text/html")
            /\ \E i \in BodyWrites(sink) :
                 sink[i].body.fmt = "html" /\ sink[i].body.msg = EscapeString("not found")
            /\ \A i \in BodyWrites(sink) : sink[i].body.fmt # "json"
       ELSE /\ \E i \in 1..Len(sink) : sink[i] = HeaderAdd("Content-Type", "application/json")
            /\ \E i \in BodyWrites(sink) :
                 sink[i].body = [fmt |-> "json", text |-> "basicError",
                                 status |-> 404, msg |-> "not found", table |-> NoTable]

\* The calls a writer received before its first status write
BeforeStatus(w) ==
  IF StatusWrites(w) = {} THEN w
  ELSE SubSeq(w, 1, (CHOOSE i \in StatusWrites(w) : \A j \in StatusWrites(w) : i <= j) - 1)

\* C13: whenever the dispatcher has sent a response, the header X-Request-Id was
\* set to the request's identity before the status line was written, and it
\* holds exactly that one value.
C13_RequestIdHeader ==
  pc = "sent" => HeaderValues(BeforeStatus(sink), "X-Request-Id") = <<reqs[1].Id>>

\* C16: for content that is an Entity with content type T and bytes B and the
\* requested status S, the sink receives Content-Type: T, then the one status
\* write, with S, then the body bytes exactly B (text/plain and "hello" for the
\* handler's BytesEntity), in that order.
C16_EntityBranch ==
  (pc = "sent" /\ Len(sent) = 1 /\ sent[1].content.kind = "Entity") =>
    LET e == sent[1].content.ent
        n == Len(sink)
    IN /\ n >= 3
       /\ sink[n - 2] = HeaderAdd("Content-Type", ents[e].ctype)
       /\ sink[n - 1] = WriteHeader(sent[1].status)
       /\ StatusWrites(sink) = {n - 1}
       /\ BodyWrites(sink) = {n}
       /\ ents[e].reads = 1
       /\ e = 1 => /\ ents[e].ctype = "text/plain"
                   /\ sink[n] = Write(RawBytes("hello"))

\* C16 witness: the handler's BytesEntity, returned in an envelope with status
\* 404, has been written to the sink
C16_Witness ==
  /\ pc = "sent" /\ Len(sent) = 1 /\ sent[1].content = EntityContent(1)
  /\ sent[1].status = 404 /\ ents[1].reads = 1
  /\ BodyWrites(sink) # {}

\* C17: nil content gives exactly one status write, with the requested status,
\* and no body write; the no-op marker gives no status write, no body write and
\* no Content-Type, although a NoopEntity is an Entity too.
C17_BodylessShapes ==
  (pc = "sent" /\ Len(sent) = 1) =>
    /\ sent[1].content.kind = "nil" =>
         /\ Cardinality(StatusWrites(sink)) = 1
         /\ \A i \in StatusWrites(sink) : sink[i].code = sent[1].status
         /\ BodyWrites(sink) = {}
    /\ sent[1].content.kind = "Noop" =>
         /\ StatusWrites(sink) = {}
         /\ BodyWrites(sink) = {}
         /\ HeaderValues(sink, "Content-Type") = <<>>

\* C17 witness: the no-op marker, returned in an envelope with status 201, has
\* gone through the encoder
C17_Witness ==
  /\ pc = "sent" /\ Len(sent) = 1 /\ sent[1].content = NoopContent
  /\ sent[1].status = 201 /\ sink # <<>>

\* C22: the detail set on an Error with SetDetail reaches the client: when
\* text/html is accepted the HTML document holds a table with one row per map
\* entry (key, value) or per slice element (field and message of a field error,
\* the value otherwise), and no table when the Error has no detail.
C22_DetailTable ==
  (/\ pc = "sent" /\ ret.err.kind = "Error" /\ Accepts(cfg.accept, "text/html")) =>
    \E i \in BodyWrites(sink) :
      /\ sink[i].body.fmt = "html"
      /\ sink[i].body.table = DetailTable(ret.err.Detail)

----------------------------------------------------------------------------
(* Claims on Request wrappers *)

\* C14: the finalized flag is a one-way latch: a Request is created with the
\* flag clear, every change of its flags leaves it set, and no step (Finalize
\* again, putAttributes, Trace, a response send) clears it; the identity and the
\* start time of a Request never change.
C14_FinalizedLatch ==
  [][/\ Len(reqs') >= Len(reqs)
     /\ \A r \in 1..Len(reqs) :
          /\ IsFinalized(reqs[r]) => IsFinalized(reqs'[r])
          /\ reqs'[r].flags # reqs[r].flags => IsFinalized(reqs'[r])
          /\ reqs'[r].Id = reqs[r].Id
          /\ reqs'[r].start = reqs[r].start
     /\ \A r \in (Len(reqs) + 1)..Len(reqs') : ~IsFinalized(reqs'[r])]_vars

\* C14 witness: a Request has been finalized and has had attributes put and a
\* trace added
C14_Witness ==
  \E r \in 1..Len(reqs) :
    /\ IsFinalized(reqs[r]) /\ reqs[r].Traces # <<>> /\ reqs[r].Attrs # 0
    /\ hist[r] # NoAttrs

\* C15: after any sequence of putAttributes calls, the attribute bag of every
\* Request maps each key of its creation or of a call made on it to the value of
\* the most recent of them holding the key, and holds no other key.
C15_AttrMerge ==
  \A r \in 1..Len(reqs) : Bag(r) = hist[r]

\* C20: attribute writes made for one request are not visible to another: a step
\* that is not an operation on Request r leaves the bag r shows unchanged, and no
\* step changes the attributes the route creates its requests with.
C20_AttrIsolation ==
  [][/\ \A r \in 1..Len(reqs) : hist'[r] = hist[r] => Bag(r)' = Bag(r)
     /\ attr # 0 => amaps'[attr] = amaps[attr]]_vars

\* What a step made of request r's trace list: nothing, or one trace put at its end
Appended(r) ==
  IF reqs'[r].Traces = reqs[r].Traces THEN <<>>
  ELSE IF /\ Len(reqs'[r].Traces) = Len(reqs[r].Traces) + 1
          /\ SubSeq(reqs'[r].Traces, 1, Len(reqs[r].Traces)) = reqs[r].Traces
       THEN <<reqs'[r].Traces[Len(reqs'[r].Traces)]>>
       ELSE <<"changed">>

\* The steps C24 allows: a request's trace list stays as it is or gets one trace
\* at its end; a trace appended to a request that holds a tracer adds its line,
\* as the last one, to that tracer and to no other, and marks it when the trace
\* carries an error; no other step touches a tracer's lines or mark
C24_Step ==
  /\ \A r \in 1..Len(reqs) : Len(Appended(r)) = 0 \/ Appended(r)[1] \in TraceValues
  /\ \A k \in 1..Len(tracers) :
       LET new == {r \in 1..Len(reqs) : Appended(r) # <<>> /\ reqs[r].Tracer = k} IN
       IF new = {} THEN tracers'[k] = tracers[k]
       ELSE \E r \in new :
              LET t == Appended(r)[1] IN
              /\ new = {r}
              /\ tracers'[k].lines =
                   Append(tracers[k].lines, [err |-> t.err # "", text |-> IF t.err # "" THEN t.err ELSE t.msg])
              /\ tracers'[k].errored = (tracers[k].errored \/ t.err # "")

\* C24: Request.Trace only appends: every step leaves a request's trace list as
\* it is or puts one trace at its end, so the list is the traces in call order;
\* with a tracer attached the trace is printed to it in the same step, and a
\* tracer is marked errored exactly when one of the traces printed to it carried
\* an error.
C24_TraceAppendOnly ==
  /\ [][C24_Step]_vars
  /\ [](\A k \in 1..Len(tracers) :
          tracers[k].errored <=> \E i \in 1..Len(tracers[k].lines) : tracers[k].lines[i].err)

\* a request traced once before its tracer was attached and twice after, with
\* a message and then with an error: it holds three traces, the tracer holds
\* the lines of the last two and is marked
C24_Witness ==
  \E r \in 1..Len(reqs) :
    /\ reqs[r].Tracer # 0
    /\ Len(reqs[r].Traces) = 3
    /\ reqs[r].Traces[2] = NewMessage("m") /\ reqs[r].Traces[3] = NewTraceError("e")
    /\ tracers[reqs[r].Tracer].lines =
         <<InfoLine(reqs[r].Traces[2]), ErrLine(reqs[r].Traces[3])>>
    /\ tracers[reqs[r].Tracer].errored

----------------------------------------------------------------------------
(* Claims on the routes of a Context *)

\* The ids of the handlers invoked, in invocation order
InvokedIds == [k \in 1..Len(invoked) |-> invoked[k].id]

\* C25: a route registered with HandleFunc runs exactly the handlers attached to
\* the context by Use before the registration, in attachment order, then the
\* route function (each handler calling its continuation); handlers attached
\* later never become part of an earlier route, and a registration leaves the
\* context's pipeline as it was.
C25_RouteRuns ==
  /\ \A k \in 2..Len(refs) : Deep(heap, refs[k]) = snap[k]
  /\ Deep(heap, refs[1]) = snap[1]
  /\ (pc = "done" /\ \A k \in 1..Len(invoked) : invoked[k].beh.next) =>
       \E k \in 2..Len(refs) : cfg.route = Deep(heap, refs[k]) /\ InvokedIds = want[k]

====
